---- MODULE Spec2Model ----
(***************************************************************************)
(* Model of validify_derive/src/fields.rs: the field-attribute resolution  *)
(* pipeline (collect_fields, map_field_types, collect_field_attributes,    *)
(* collect_field_info) and of the run of the derived validation that       *)
(* derive_tests/tests/phone.rs exercises.                                  *)
(*                                                                         *)
(* Strings are sequences of token texts: an identifier, a punctuation      *)
(* character or a single space " ".  No identifier contains '&' or ' '.    *)
(***************************************************************************)
EXTENDS Integers, Sequences, FiniteSets

VARIABLES input, allow_refs, pc, fields, m, types, final_validations,
          parsed, err, result, value, errors

vars == <<input, allow_refs, pc, fields, m, types, final_validations,
          parsed, err, result, value, errors>>

\* ------------------------------------------------------------------ bounds
MaxFields == 2
MaxDepth == 2

\* ------------------------------------------------------- type expressions
NoIdent == "none"
NoLifetime == "none"
NoCode == "none"

FieldNames == {"a", "b"}
Lifetimes == {"a", "b"}

PathType(n, as) == [tag |-> "Path", name |-> n, lt |-> NoLifetime, args |-> as]
RefType(l, t) == [tag |-> "Reference", name |-> "", lt |-> l, args |-> <<t>>]
GroupType(t) == [tag |-> "Group", name |-> "", lt |-> NoLifetime, args |-> <<t>>]
ParenType(t) == [tag |-> "Paren", name |-> "", lt |-> NoLifetime, args |-> <<t>>]
SliceType(t) == [tag |-> "Slice", name |-> "", lt |-> NoLifetime, args |-> <<t>>]

BaseTypes == {PathType("String", <<>>), PathType("str", <<>>)}

Wrap(S) == {RefType(l, t) : l \in Lifetimes \cup {NoLifetime}, t \in S}
           \cup {GroupType(t) : t \in S}
           \cup {ParenType(t) : t \in S}
           \cup {SliceType(t) : t \in S}
           \cup {PathType("Vec", <<t>>) : t \in S}

RECURSIVE TypesUpTo(_)
TypesUpTo(d) == IF d = 0 THEN BaseTypes
                ELSE BaseTypes \cup Wrap(TypesUpTo(d - 1))

\* a reference type occurs somewhere in the type expression
RECURSIVE MentionsRef(_)
MentionsRef(ty) ==
    \/ ty.tag = "Reference"
    \/ ty.args # <<>> /\ MentionsRef(ty.args[1])

\* ---------------------------------------------- serialisation of a type
\* ToTokens for syn::Type: the token stream of the type expression
RECURSIVE ToTokens(_)
ToTokens(ty) ==
    CASE ty.tag = "Path" ->
            <<ty.name>> \o (IF ty.args = <<>> THEN <<>>
                            ELSE <<"<">> \o ToTokens(ty.args[1]) \o <<">">>)
      [] ty.tag = "Reference" ->
            <<"&">> \o (IF ty.lt # NoLifetime THEN <<"'", ty.lt>> ELSE <<>>)
                    \o ToTokens(ty.args[1])
      [] ty.tag = "Group" -> ToTokens(ty.args[1])
      [] ty.tag = "Paren" -> <<"(">> \o ToTokens(ty.args[1]) \o <<")">>
      [] ty.tag = "Slice" -> <<"[">> \o ToTokens(ty.args[1]) \o <<"]">>

\* TokenStream::to_string: tokens separated by one space, none after the
\* joint punctuation of a lifetime
RECURSIVE ToString(_)
ToString(toks) ==
    IF toks = <<>> THEN <<>>
    ELSE IF Len(toks) = 1 \/ Head(toks) = "'"
         THEN <<Head(toks)>> \o ToString(Tail(toks))
         ELSE <<Head(toks), " ">> \o ToString(Tail(toks))

\* str::replace(' ', "")
IsNotSpace(c) == c # " "
StripSpaces(s) == SelectSeq(s, IsNotSpace)

\* str::contains(c)
Contains(s, c) == \E k \in 1..Len(s) : s[k] = c

\* the match on field.ty serialising the whole reference type
FieldType_whole_reference(ty) ==
    CASE ty.tag = "Path" -> StripSpaces(ToString(ToTokens(ty)))
      [] ty.tag = "Reference" ->
            LET name == StripSpaces(ToString(ToTokens(ty)))
            IN  IF ty.lt # NoLifetime THEN <<"&">> \o name ELSE name
      [] ty.tag = "Group" -> StripSpaces(ToString(ToTokens(ty.args[1])))
      [] OTHER -> StripSpaces(ToString(ToTokens(ty)))

\* the match on field.ty of map_field_types
FieldType(ty) ==
    CASE ty.tag = "Path" -> StripSpaces(ToString(ToTokens(ty)))
      [] ty.tag = "Reference" ->
            LET name == StripSpaces(ToString(ToTokens(ty.args[1])))
            IN  IF ty.lt # NoLifetime THEN <<"&">> \o name ELSE name
      [] ty.tag = "Group" -> StripSpaces(ToString(ToTokens(ty.args[1])))
      [] OTHER -> StripSpaces(ToString(ToTokens(ty)))

\* the condition of the abort without the test of allow_refs
OwnershipViolation_ignores_flag(field_type, allow) == Contains(field_type, "&")

\* the condition of the abort of map_field_types
OwnershipViolation(field_type, allow) == Contains(field_type, "&") /\ ~allow

\* HashMap::new
EmptyMap == [n \in {} |-> <<>>]

\* HashMap::insert
MapInsert(h, k, v) == [n \in DOMAIN h \cup {k} |-> IF n = k THEN v ELSE h[n]]

\* ------------------------------------------------------------ annotations
RuleKeywords == {"phone", "email"}
ModifierKeywords == {"trim"}

Annotation(k, c) == [keyword |-> k, code |-> c]

AttrLists == { <<>>,
               <<Annotation("phone", NoCode)>>,
               <<Annotation("phone", "oops")>>,
               <<Annotation("email", NoCode)>>,
               <<Annotation("trim", NoCode)>>,
               <<Annotation("bogus", NoCode)>> }

DefaultCode(kind) == CASE kind = "phone" -> "phone"
                       [] kind = "email" -> "email"

IsRule(a) == a.keyword \in RuleKeywords
IsModifier(a) == a.keyword \in ModifierKeywords
IsUnknown(a) == ~IsRule(a) /\ ~IsModifier(a)

\* the validators of a field's annotations, in declaration order
ParseRule(a) == [kind |-> a.keyword,
                 code |-> IF a.code # NoCode THEN a.code
                          ELSE DefaultCode(a.keyword)]

RECURSIVE collect_validations(_)
collect_validations(attrs) ==
    IF attrs = <<>> THEN <<>>
    ELSE IF IsRule(Head(attrs))
         THEN <<ParseRule(Head(attrs))>> \o collect_validations(Tail(attrs))
         ELSE collect_validations(Tail(attrs))

RECURSIVE collect_modifiers(_)
collect_modifiers(attrs) ==
    IF attrs = <<>> THEN <<>>
    ELSE IF IsModifier(Head(attrs))
         THEN <<[kind |-> Head(attrs).keyword]>> \o collect_modifiers(Tail(attrs))
         ELSE collect_modifiers(Tail(attrs))

HasUnknownAnnotation(attrs) == \E k \in 1..Len(attrs) : IsUnknown(attrs[k])

\* ---------------------------------------------------------------- inputs
Field(id, ty, at) == [ident |-> id, ty |-> ty, attrs |-> at]

PipelineTypes == {PathType("String", <<>>), PathType("u32", <<>>),
                  RefType("a", PathType("str", <<>>))}

NamedFields == {Field(id, ty, at) : id \in FieldNames, ty \in PipelineTypes,
                                    at \in AttrLists}
UnnamedFields == {Field(NoIdent, PathType("String", <<>>), <<>>)}

RECURSIVE SeqsUpTo(_, _)
SeqsUpTo(S, n) == IF n = 0 THEN {<<>>}
                  ELSE LET P == SeqsUpTo(S, n - 1)
                       IN  P \cup {Append(s, x) : s \in {q \in P : Len(q) = n - 1}, x \in S}

StructInput(fs) == [kind |-> "struct", fields |-> fs]

\* structs of up to MaxFields fields over the pipeline types
PipelineInputs == {StructInput(fs) : fs \in SeqsUpTo(NamedFields \cup UnnamedFields, MaxFields)}
\* structs of one field without annotations, over the nested type expressions
SignatureInputs == {StructInput(<<Field("a", ty, <<>>)>>) : ty \in TypesUpTo(MaxDepth)}
OtherInputs == {[kind |-> "enum", fields |-> <<>>], [kind |-> "union", fields |-> <<>>]}

Inputs == PipelineInputs \cup SignatureInputs \cup OtherInputs

Values == {"+14152370800", "bob"}

NoErr == [kind |-> "none", node |-> "none", at |-> 0]
NoResult == [returned |-> FALSE, list |-> <<>>]

\* ------------------------------------------------------------------ init
Init ==
    /\ input \in Inputs
    /\ allow_refs \in BOOLEAN
    /\ pc = "start"
    /\ fields = <<>>
    /\ m = 0
    /\ types = EmptyMap
    /\ final_validations = <<>>
    /\ parsed = 0
    /\ err = NoErr
    /\ result = NoResult
    /\ value = "none"
    /\ errors = <<>>

\* the error is recorded but the run goes on
Abort_not_fatal(kind, node, at) ==
    /\ pc' = pc
    /\ err' = [kind |-> kind, node |-> node, at |-> at]

\* abort!: the error ends the run
Abort(kind, node, at) ==
    /\ pc' = "aborted"
    /\ err' = [kind |-> kind, node |-> node, at |-> at]

\* collect_fields looking only at the first field for a name
collect_fields_first_only ==
    /\ pc = "start"
    /\ IF input.kind = "struct"
       THEN IF input.fields # <<>> /\ input.fields[1].ident = NoIdent
            THEN Abort("shape", "fields", 0) /\ UNCHANGED fields
            ELSE /\ fields' = input.fields
                 /\ pc' = "map"
                 /\ UNCHANGED err
       ELSE Abort("shape", "input", 0) /\ UNCHANGED fields
    /\ UNCHANGED <<input, allow_refs, m, types, final_validations, parsed, result, value, errors>>

\* collect_fields, called at the start of collect_field_info
collect_fields ==
    /\ pc = "start"
    /\ IF input.kind = "struct"
       THEN IF \E k \in 1..Len(input.fields) : input.fields[k].ident = NoIdent
            THEN Abort("shape", "fields", 0) /\ UNCHANGED fields
            ELSE /\ fields' = input.fields
                 /\ pc' = "map"
                 /\ UNCHANGED err
       ELSE Abort("shape", "input", 0) /\ UNCHANGED fields
    /\ UNCHANGED <<input, allow_refs, m, types, final_validations, parsed, result, value, errors>>

\* one iteration of the loop of map_field_types over fields[m + 1]
map_field_types_step ==
    /\ pc = "map"
    /\ m < Len(fields)
    /\ LET field == fields[m + 1]
           field_type == FieldType(field.ty)
       IN  IF field.ident = NoIdent
           THEN /\ pc' = "panicked"
                /\ UNCHANGED <<m, types, err>>
           ELSE IF OwnershipViolation(field_type, allow_refs)
                THEN /\ Abort("ownership", "field", m + 1)
                     /\ UNCHANGED <<m, types>>
                ELSE /\ types' = MapInsert(types, field.ident, field_type)
                     /\ m' = m + 1
                     /\ UNCHANGED <<pc, err>>
    /\ UNCHANGED <<input, allow_refs, fields, final_validations, parsed, result, value, errors>>

\* map_field_types returning after its first field
map_field_types_return_early ==
    /\ pc = "map"
    /\ m >= 1 \/ m = Len(fields)
    /\ pc' = "extract"
    /\ final_validations' = <<>>
    /\ UNCHANGED <<input, allow_refs, fields, m, types, parsed, err, result, value, errors>>

\* map_field_types returns the mapping; collect_field_info starts its loop
map_field_types_return ==
    /\ pc = "map"
    /\ m = Len(fields)
    /\ pc' = "extract"
    /\ final_validations' = <<>>
    /\ UNCHANGED <<input, allow_refs, fields, m, types, parsed, err, result, value, errors>>

\* insertion at the front
Push_front(list, x) == <<x>> \o list

\* Vec::push
Push(list, x) == Append(list, x)

\* collect_field_attributes without its call of collect_validations
collect_field_attributes_no_validations(field, field_types) ==
    [validators |-> <<>>,
     modifiers |-> collect_modifiers(field.attrs)]

\* collect_field_attributes: the validators and modifiers of a field
collect_field_attributes(field, field_types) ==
    [validators |-> collect_validations(field.attrs),
     modifiers |-> collect_modifiers(field.attrs)]

\* FieldInformation::new
FieldInformation(field, field_type, name, validations, modifiers) ==
    [field |-> field, field_type |-> field_type, name |-> name,
     validations |-> validations, modifiers |-> modifiers]

\* one iteration of the loop of collect_field_info over the drained fields,
\* with its call of collect_field_attributes
collect_field_info_step ==
    /\ pc = "extract"
    /\ fields # <<>>
    /\ LET field == Head(fields)
           field_ident == field.ident
       IN  IF field_ident = NoIdent \/ field_ident \notin DOMAIN types
           THEN /\ pc' = "panicked"
                /\ UNCHANGED <<fields, final_validations, parsed, err>>
           ELSE /\ parsed' = parsed + 1
                /\ IF HasUnknownAnnotation(field.attrs)
                   THEN /\ Abort("annotation", "attr", Len(input.fields) - Len(fields) + 1)
                        /\ UNCHANGED <<fields, final_validations>>
                   ELSE /\ LET attributes == collect_field_attributes(field, types)
                           IN  final_validations' = Push(final_validations,
                                   FieldInformation(field, types[field_ident], field_ident,
                                                    attributes.validators,
                                                    attributes.modifiers))
                        /\ fields' = Tail(fields)
                        /\ UNCHANGED <<pc, err>>
    /\ UNCHANGED <<input, allow_refs, m, types, result, value, errors>>

\* Ok(final_validations)
collect_field_info_return ==
    /\ pc = "extract"
    /\ fields = <<>>
    /\ pc' = "returned"
    /\ result' = [returned |-> TRUE, list |-> final_validations]
    /\ UNCHANGED <<input, allow_refs, fields, m, types, final_validations, parsed, err, value, errors>>

\* a rule of the given kind rejects the value
RuleFails(kind, v) == CASE kind = "phone" -> v # "+14152370800"
                        [] kind = "email" -> TRUE

\* the errors of one field's validators on the value v, in order
RECURSIVE FieldErrors(_, _, _)
FieldErrors(k, validations, v) ==
    IF validations = <<>> THEN <<>>
    ELSE (IF RuleFails(Head(validations).kind, v)
          THEN <<[field |-> k, code |-> Head(validations).code, value |-> v]>>
          ELSE <<>>) \o FieldErrors(k, Tail(validations), v)

RECURSIVE AllErrors(_, _, _)
AllErrors(list, k, v) ==
    IF k > Len(list) THEN <<>>
    ELSE FieldErrors(k, list[k].validations, v) \o AllErrors(list, k + 1, v)

\* validate() of the derived implementation on a value whose fields all hold v
validate ==
    /\ pc = "returned"
    /\ \E v \in Values : value' = v /\ errors' = AllErrors(result.list, 1, v)
    /\ pc' = "validated"
    /\ UNCHANGED <<input, allow_refs, fields, m, types, final_validations, parsed, err, result>>

Next ==
    \/ collect_fields
    \/ map_field_types_step
    \/ map_field_types_return
    \/ collect_field_info_step
    \/ collect_field_info_return
    \/ validate

Spec == Init /\ [][Next]_vars

\* ------------------------------------------------------------ properties
Decl == input.fields
NDecl == Len(input.fields)

Terminal == pc \in {"aborted", "panicked", "returned", "validated"}

AllNamed == \A k \in 1..NDecl : Decl[k].ident # NoIdent

\* the type expression shows a borrow in its signature: a reference with an
\* explicit lifetime, or a reference nested inside the type
BorrowVisible(ty) ==
    IF ty.tag = "Reference"
    THEN ty.lt # NoLifetime \/ MentionsRef(ty.args[1])
    ELSE MentionsRef(ty)

\* the field map_field_types resolved last, while it is still running
JustResolved == pc = "map" /\ m >= 1

\* C1: a field of reference type, with or without a lifetime, is never
\* passed by map_field_types under allow_refs = false, and an ownership
\* error is never raised under allow_refs = true.
C1_RefAlwaysRejected ==
    /\ \A k \in 1..NDecl :
          (k <= m /\ Decl[k].ty.tag = "Reference") => allow_refs
    /\ err.kind = "ownership" => ~allow_refs

\* C8: a field of grouped type Group(T) gets the signature of T and the
\* outcome of the ownership check of T.
C8_GroupTransparent ==
    /\ (JustResolved /\ fields[m].ty.tag = "Group") =>
          /\ types[fields[m].ident] = FieldType(fields[m].ty.args[1])
          /\ ~OwnershipViolation(FieldType(fields[m].ty.args[1]), allow_refs)
    /\ (err.kind = "ownership" /\ Decl[err.at].ty.tag = "Group") =>
          OwnershipViolation(FieldType(Decl[err.at].ty.args[1]), allow_refs)

\* C10: the lookups never panic, and every returned FieldInformation has
\* the name of its field and the signature of its own field's type.
C10_OwnSignature ==
    /\ pc # "panicked"
    /\ result.returned =>
          \A k \in 1..Len(result.list) :
             /\ result.list[k].name = Decl[k].ident
             /\ result.list[k].field_type = FieldType(Decl[k].ty)

\* C3: once collect_fields has run, an input that is not a struct or has a
\* field without a name has raised the structural-shape error and nothing
\* else has run or been returned; any other input has raised no such error
\* and its fields are handed on in full, in declaration order.
C3_CollectFields ==
    pc # "start" =>
       IF input.kind # "struct" \/ (\E k \in 1..NDecl : Decl[k].ident = NoIdent)
       THEN /\ pc = "aborted"
            /\ err.kind = "shape"
            /\ err.node = (IF input.kind = "struct" THEN "fields" ELSE "input")
            /\ fields = <<>> /\ m = 0 /\ types = EmptyMap /\ parsed = 0
            /\ final_validations = <<>> /\ ~result.returned /\ result.list = <<>>
       ELSE /\ err.kind # "shape"
            /\ pc # "panicked"
            /\ pc = "map" => fields = Decl
            /\ Len(fields) <= NDecl
            /\ fields = SubSeq(Decl, NDecl - Len(fields) + 1, NDecl)

\* a struct whose second field has no name was rejected
C3_Witness ==
    /\ pc = "aborted" /\ err.kind = "shape"
    /\ input.kind = "struct" /\ NDecl = 2
    /\ Decl[1].ident # NoIdent /\ Decl[2].ident = NoIdent

\* C5: a raised error ends the run where it was raised and no list, not
\* even the prefix already built, is returned; a returned list means every
\* field was resolved and extracted without error, one entry per field.
C5_FailFast ==
    /\ err # NoErr =>
          /\ pc = "aborted"
          /\ ~result.returned /\ result.list = <<>> /\ errors = <<>>
          /\ err.kind = "shape" => m = 0 /\ parsed = 0
          /\ err.kind = "ownership" => m = err.at - 1 /\ parsed = 0
          /\ err.kind = "annotation" =>
                /\ m = NDecl /\ parsed = err.at
                /\ Len(final_validations) = err.at - 1
    /\ result.returned =>
          /\ err = NoErr
          /\ m = NDecl /\ parsed = NDecl
          /\ Len(result.list) = NDecl

\* the second field's annotation was rejected after the first field's
\* descriptor had been built
C5_Witness ==
    /\ pc = "aborted" /\ err.kind = "annotation" /\ err.at = 2
    /\ Len(final_validations) = 1 /\ ~result.returned

NoAnnotations == \A k \in 1..NDecl : Decl[k].attrs = <<>>

\* the descriptors of a struct without annotations: one per field, in
\* declaration order, with no validations and no modifiers
PlainDescriptors ==
    /\ result.returned
    /\ Len(result.list) = NDecl
    /\ \A k \in 1..NDecl :
          /\ result.list[k].name = Decl[k].ident
          /\ result.list[k].field = Decl[k]
          /\ result.list[k].validations = <<>>
          /\ result.list[k].modifiers = <<>>

\* C2 as stated: every run over a struct with only named fields and no
\* annotations ends with one FieldInformation per field, in declaration
\* order, each with empty validations and modifiers.
C2_Original ==
    (input.kind = "struct" /\ AllNamed /\ NoAnnotations /\ Terminal) => PlainDescriptors

\* C2 amended: the same, for the structs the ownership check lets through
\* (allow_refs = true, or no field whose signature shows a borrow); such a
\* run raises no error and does not panic.
C2_Amended ==
    (/\ input.kind = "struct" /\ AllNamed /\ NoAnnotations
     /\ allow_refs \/ \A k \in 1..NDecl : ~BorrowVisible(Decl[k].ty)) =>
       /\ err = NoErr /\ pc # "panicked"
       /\ Terminal => PlainDescriptors

\* two fields of different names and no annotations were returned
C2_Witness ==
    /\ pc = "returned" /\ NDecl = 2 /\ NoAnnotations
    /\ Decl[1].ident = "b" /\ Decl[2].ident = "a"
    /\ Len(result.list) = 2

\* the annotations of field k that are rules
RuleAnnotations(k) == {j \in 1..Len(Decl[k].attrs) : Decl[k].attrs[j].keyword \in {"phone", "email"}}

\* the errors recorded for field k
ErrorsOf(k) == {j \in 1..Len(errors) : errors[j].field = k}

\* the code a failing rule annotation is to report
ExpectedCode(a) ==
    IF a.code # NoCode THEN a.code
    ELSE CASE a.keyword = "phone" -> "phone"
           [] a.keyword = "email" -> "email"

\* the value is rejected by the rule of the annotation
Rejected(a, v) == (a.keyword = "phone" /\ v = "bob") \/ a.keyword = "email"

RefSignature(ty) ==
    (IF ty.lt # NoLifetime THEN <<"&">> ELSE <<>>) \o ToTokens(ty.args[1])

\* C9 as stated: the signature of a reference-typed field is the stripped
\* serialization of the referenced type, prefixed with '&' exactly when the
\* reference has a lifetime, and no lifetime appears in it.
C9_Original ==
    (JustResolved /\ fields[m].ty.tag = "Reference") =>
       /\ types[fields[m].ident] = RefSignature(fields[m].ty)
       /\ ~Contains(types[fields[m].ident], "'")

\* C9 amended: the signature of a reference-typed field is the stripped
\* serialization of the referenced type, prefixed with '&' exactly when the
\* reference has a lifetime; the name of the reference's own lifetime is
\* not part of it, so the signature is the same for every name of that
\* lifetime; lifetimes inside the referenced type are kept as written.
C9_Amended ==
    (JustResolved /\ fields[m].ty.tag = "Reference") =>
       LET ty == fields[m].ty
           sig == types[fields[m].ident]
       IN  /\ sig = RefSignature(ty)
           /\ ~Contains(sig, " ")
           /\ ty.lt # NoLifetime =>
                 \A l \in Lifetimes : sig = RefSignature([ty EXCEPT !.lt = l])
           /\ Contains(sig, "'") <=> Contains(ToTokens(ty.args[1]), "'")

\* a reference with lifetime 'b to a reference with lifetime 'a was resolved
C9_Witness ==
    /\ JustResolved /\ fields[m].ty.tag = "Reference" /\ fields[m].ty.lt = "b"
    /\ fields[m].ty.args[1].tag = "Reference" /\ fields[m].ty.args[1].lt = "a"
    /\ types[fields[m].ident] = <<"&", "&", "'", "a", "String">>

====
